---- MODULE Spec2Model ----
(***************************************************************************)
(* A model of the Gerrit review MCP server: the REST request primitive     *)
(* (src/data/gerrit_api.py), the two aggregating tools fetch_gerrit_change *)
(* and fetch_patchset_diff, and get_repository_path_from_change            *)
(* (src/servers/gerrit_service.py; src/providers/gerrit_provider.py holds  *)
(* the same two aggregations line for line inside a try/except that logs   *)
(* and re-raises).                                                         *)
(*                                                                         *)
(* A tool invocation is a sequence of steps, one per HTTP GET: a step is   *)
(* the GET, the backend's answer (chosen nondeterministically) and all the *)
(* code up to the next GET or to the return/raise.                         *)
(*                                                                         *)
(* Python dicts keep insertion order, so a JSON object is a sequence of    *)
(* entries with pairwise distinct keys.  Python strings that take part in  *)
(* str()/sorted() are sequences of one-character strings.                  *)
(***************************************************************************)
EXTENDS Integers, Sequences, FiniteSets, TLC

\* ------------------------------------------------------------- bounds
\* Most revisions in one change detail.
MaxRevs == 2
\* Most file entries in one change detail (all revisions together) and in
\* one file-list response.
MaxFiles == 2

\* ------------------------------------------------------ Python values
\* None, or a key that a dict does not hold (dict.get(key) gives None).
Absent == "<None>"
\* None where a string of characters is expected.
PyNone == << "<None>" >>
\* A record-valued variable that holds nothing.
Null == [null |-> TRUE]

\* bool(s) of a str-or-None value s.
Truthy(s) == s \notin {Absent, ""}
\* bool(s) of a character-sequence-or-None value s.
TruthyStr(s) == s # PyNone /\ s # << >>

Digits == << "0", "1", "2", "3", "4", "5", "6", "7", "8", "9" >>

\* ord(c), as far as the order of the digit characters goes.
CharOrd(c) == CHOOSE i \in 1..Len(Digits) : Digits[i] = c

RECURSIVE IntToStr(_)
\* str(n) of a non-negative int: its decimal digits.
IntToStr(n) ==
    IF n < 10 THEN << Digits[n + 1] >>
    ELSE IntToStr(n \div 10) \o << Digits[(n % 10) + 1] >>

RECURSIVE StrLess(_, _)
\* a < b of two Python strings: lexicographic by character.
StrLess(a, b) ==
    IF a = << >> THEN b # << >>
    ELSE IF b = << >> THEN FALSE
    ELSE IF Head(a) # Head(b) THEN CharOrd(Head(a)) < CharOrd(Head(b))
    ELSE StrLess(Tail(a), Tail(b))

RECURSIVE InsertSorted(_, _)
InsertSorted(x, s) ==
    IF s = << >> THEN << x >>
    ELSE IF StrLess(x, Head(s)) THEN << x >> \o s
    ELSE << Head(s) >> \o InsertSorted(x, Tail(s))

RECURSIVE sorted(_)
\* sorted(list of str): every element kept, ascending (stable).
sorted(s) ==
    IF s = << >> THEN << >>
    ELSE InsertSorted(s[Len(s)], sorted(SubSeq(s, 1, Len(s) - 1)))

\* ------------------------------------------------- the backend's data
COMMIT_MSG == "/COMMIT_MSG"
Paths == {COMMIT_MSG, "a.c", "b.c"}
\* FileInfo.status as the backend sends it; Absent: the key is not sent.
Statuses == {Absent, "ADDED", "SAME"}
\* The statuses occurring inside a change detail's revisions.
RevisionStatuses == {"ADDED"}
\* Patchset numbers the backend may give a revision.
Numbers == {2, 10}
\* Revision ids.  They are opaque keys, so a revisions map is taken up to
\* renaming: its i-th entry in iteration order has the key RevNames[i].
RevNames == << "r1", "r2", "r3", "r4" >>
Projects == {Absent, "proj"}

Injective(f) == \A i, j \in DOMAIN f : f[i].path = f[j].path => i = j

\* The JSON objects path -> FileInfo with at most n entries.
FileMaps(n, statuses) ==
    { f \in UNION { [1..k -> [path : Paths, status : statuses]] : k \in 0..n } :
        Injective(f) }

RECURSIVE RevisionInfos(_, _)
\* The lists of k RevisionInfo holding at most budget file entries together.
RevisionInfos(k, budget) ==
    IF k = 0 THEN { << >> }
    ELSE UNION { { << [_number |-> n, files |-> f] >> \o rest :
                     rest \in RevisionInfos(k - 1, budget - Len(f)) } :
                 n \in Numbers, f \in FileMaps(budget, RevisionStatuses) }

\* revisions: the list of entries [rev, _number, files] in iteration order.
RevisionMaps ==
    { [i \in 1..Len(infos) |->
          [rev |-> RevNames[i], _number |-> infos[i]._number, files |-> infos[i].files]] :
      infos \in UNION { RevisionInfos(k, MaxFiles) : k \in 0..MaxRevs } }

\* The JSON object `{}`.
EmptyJson ==
    [project |-> Absent, current_revision |-> Absent, revisions |-> << >>, other_keys |-> FALSE]

\* The change details a backend may answer with; other_keys stands for the
\* fields the tools never read (id, subject, owner, ...).
ChangeDetails ==
    [project : Projects,
     current_revision : {Absent} \cup { RevNames[i] : i \in 1..MaxRevs },
     revisions : RevisionMaps,
     other_keys : {TRUE}]

DiffPayloads == {"diff"}

\* dict operations on a list of entries keyed by `rev`.
HasRev(revisions, rev) == \E i \in DOMAIN revisions : revisions[i].rev = rev
RevInfo(revisions, rev) == revisions[CHOOSE i \in DOMAIN revisions : revisions[i].rev = rev]

\* --------------------------------------------- exceptions and responses
\* An exception: kind names the failure (the message the code raises it
\* with, see the raise sites below), cause the kind of the exception it
\* wraps, available the patchset list of a "Patchset not found" message.
Exc(kind) == [kind |-> kind, cause |-> Absent, available |-> << >>]

\* json.loads() input: a document, or text that is no JSON.
Json(v) == [valid |-> TRUE, value |-> v]
Garbage == [valid |-> FALSE, value |-> Null]

\* The anti-hijacking prefix )]}' of a Gerrit body.
Magic == << ")", "]", "}", "'" >>

\* HTTP status codes a response may carry.
StatusCodes == {101, 200, 304, 401, 404, 500}

\* What requests.get() gives: no response at all (ConnectionError, SSLError,
\* ...), or a response with a status and a body.  A body is its leading
\* characters followed by one item, the text of the document.
Responses(documents) ==
    { [received |-> FALSE, status_code |-> 0, text |-> << >>] }
    \cup [received : {TRUE}, status_code : StatusCodes,
          text : { pre \o << d >> : pre \in {<< >>, Magic},
                                    d \in { Json(v) : v \in documents } \cup {Garbage} }]

\* content.startswith(")]}'")
StartsWithMagic(content) ==
    Len(content) >= Len(Magic) /\ SubSeq(content, 1, Len(Magic)) = Magic

\* gerrit_api.py 50-52: drop the prefix when the body starts with it.
StripMagic(content) ==
    IF StartsWithMagic(content) THEN SubSeq(content, Len(Magic) + 1, Len(content))
    ELSE content

\* json.loads(content) succeeds exactly on one whole document.
JsonLoads(content) ==
    IF Len(content) = 1 /\ content[1].valid
    THEN [ok |-> TRUE, value |-> content[1].value]
    ELSE [ok |-> FALSE, value |-> Null]

\* response.raise_for_status(): HTTPError for 400 <= status < 600 only.
RaiseForStatusFails(status_code) == 400 <= status_code /\ status_code < 600

\* What a call of the primitive ends with.  class is the Python class of the
\* exception ("" when the call returns), sent whether requests.get() ran.
Returned(value) == [class |-> "", error |-> Null, data |-> value, sent |-> TRUE]
Thrown(class, kind, sent) == [class |-> class, error |-> Exc(kind), data |-> Null, sent |-> sent]

\* TryBody raising the 401 failure as an HTTPError (a RequestException), as
\* response.raise_for_status() would.
TryBody_auth_as_http_error(resp) ==
    IF ~resp.received
    THEN Thrown("RequestException", "ConnectionError", TRUE)
    ELSE IF resp.status_code = 401 \/ RaiseForStatusFails(resp.status_code)
    THEN Thrown("RequestException", "HTTPError", TRUE)
    ELSE LET parsed == JsonLoads(StripMagic(resp.text))
         IN IF parsed.ok THEN Returned(parsed.value)
            ELSE Thrown("Exception", "ResponseFormatError", TRUE)

\* gerrit_api.py 33-60, the body of the try statement.
TryBody(resp) ==
    IF ~resp.received
    THEN Thrown("RequestException", "ConnectionError", TRUE)
    ELSE IF resp.status_code = 401
    THEN \* raise Exception("Authentication failed. ...")
         Thrown("Exception", "AuthenticationError", TRUE)
    ELSE IF RaiseForStatusFails(resp.status_code)
    THEN Thrown("RequestException", "HTTPError", TRUE)
    ELSE LET parsed == JsonLoads(StripMagic(resp.text))
         IN IF parsed.ok THEN Returned(parsed.value)
            ELSE \* raise Exception("Failed to parse Gerrit response as JSON: ...")
                 Thrown("Exception", "ResponseFormatError", TRUE)

\* gerrit_api.py 62-66, the handler of requests.exceptions.RequestException:
\* hasattr(e, 'response') holds of every RequestException, and e.response is
\* None when no response was received, so e.response.status_code raises
\* AttributeError there; otherwise
\* raise Exception("Failed to make Gerrit REST API request: ...").
ExceptRequestException(resp) ==
    IF ~resp.received THEN Thrown("AttributeError", "AttributeError", TRUE)
    ELSE Thrown("Exception", "TransportError", TRUE)

\* make_gerrit_rest_request without the password test of lines 17-19.
make_gerrit_rest_request_unchecked(gerrit_ctx, resp) ==
    LET r == TryBody(resp)
    IN IF r.class = "RequestException" THEN ExceptRequestException(resp) ELSE r

\* gerrit_api.py 12-68.  gerrit_ctx is the lifespan context, resp what the
\* backend would answer if asked.
make_gerrit_rest_request(gerrit_ctx, resp) ==
    IF ~Truthy(gerrit_ctx.http_password)
    THEN \* raise ValueError("HTTP password not set. ...")
         Thrown("ValueError", "ConfigurationError", FALSE)
    ELSE LET r == TryBody(resp)
         IN IF r.class = "RequestException" THEN ExceptRequestException(resp) ELSE r

\* The ways a call of the primitive can end when the backend answers with
\* one of Responses(documents).
Answers(gerrit_ctx, documents) ==
    { make_gerrit_rest_request(gerrit_ctx, resp) : resp \in Responses(documents) }

\* ------------------------------------------------ revision resolution
\* FirstMatch with the comparison of line 106 always true.
FirstMatch_any_number(revs, patchset_number) ==
    IF revs = << >> THEN Absent ELSE revs[1].rev

\* gerrit_service.py 105-108: the key of the first entry, in iteration
\* order, whose str(_number) equals str(patchset_number); Absent if none.
FirstMatch(revs, patchset_number) ==
    LET hits == { i \in DOMAIN revs : IntToStr(revs[i]._number) = patchset_number }
    IN IF hits = {} THEN Absent
       ELSE revs[CHOOSE i \in hits : \A j \in hits : i <= j].rev

\* gerrit_service.py 175-179: the loop has no break, so the last matching
\* entry wins; Absent if none.
LastMatch(revs, patchset_number) ==
    LET hits == { i \in DOMAIN revs : IntToStr(revs[i]._number) = patchset_number }
    IN IF hits = {} THEN Absent
       ELSE revs[CHOOSE i \in hits : \A j \in hits : j <= i].rev

\* available_patchsets without the call of sorted().
available_patchsets_unsorted(revs) == [i \in DOMAIN revs |-> IntToStr(revs[i]._number)]

\* gerrit_service.py 110 and 181:
\* sorted([str(info.get("_number")) for info in revisions.values()])
available_patchsets(revs) == sorted([i \in DOMAIN revs |-> IntToStr(revs[i]._number)])

\* raise ValueError("Patchset ... not found. Available patchsets: ...")
PatchsetNotFound(revs) ==
    [kind |-> "PatchsetNotFoundError", cause |-> Absent, available |-> available_patchsets(revs)]

\* ResolveTarget taking the newest revision, not current_revision, when no
\* patchset number is given.
ResolveTarget_latest(d, patchset_number) ==
    IF TruthyStr(patchset_number)
    THEN LET rev == FirstMatch(d.revisions, patchset_number)
         IN IF ~Truthy(rev) THEN [ok |-> FALSE, rev |-> Absent, error |-> PatchsetNotFound(d.revisions)]
            ELSE [ok |-> TRUE, rev |-> rev, error |-> Null]
    ELSE [ok |-> TRUE, error |-> Null,
          rev |-> IF d.revisions = << >> THEN Absent ELSE d.revisions[Len(d.revisions)].rev]

\* gerrit_service.py 103-114: the revision fetch_gerrit_change works on,
\* or the exception of line 112.
ResolveTarget(d, patchset_number) ==
    IF TruthyStr(patchset_number)
    THEN LET rev == FirstMatch(d.revisions, patchset_number)
         IN IF ~Truthy(rev) THEN [ok |-> FALSE, rev |-> Absent, error |-> PatchsetNotFound(d.revisions)]
            ELSE [ok |-> TRUE, rev |-> rev, error |-> Null]
    ELSE [ok |-> TRUE, rev |-> d.current_revision, error |-> Null]

\* gerrit_service.py 94-118: from the parsed change detail to the revision
\* whose files are fetched, or to the exception raised on the way.
CheckChange(d, patchset_number) ==
    IF d = EmptyJson
    THEN \* raise ValueError(f"Change {change_id} not found")
         [ok |-> FALSE, rev |-> Absent, error |-> Exc("ChangeNotFoundError")]
    ELSE IF ~Truthy(d.project)
    THEN \* raise ValueError("Project information not found in change")
         [ok |-> FALSE, rev |-> Absent, error |-> Exc("ChangeDataError")]
    ELSE LET r == ResolveTarget(d, patchset_number)
         IN IF ~r.ok THEN r
            ELSE IF ~Truthy(r.rev) \/ ~HasRev(d.revisions, r.rev)
            THEN \* raise ValueError("Revision information not found")
                 [ok |-> FALSE, rev |-> Absent, error |-> Exc("ChangeDataError")]
            ELSE r

\* ---------------------------------------------------- diff aggregation
\* dict.get("status", "MODIFIED")
StatusOrDefault(status) == IF status = Absent THEN "MODIFIED" ELSE status

\* SkippedInChange without the test of line 121.
SkippedInChange_nothing(entry) == FALSE

\* gerrit_service.py 121-122: fetch_gerrit_change fetches no diff for this entry.
SkippedInChange(entry) == entry.path = COMMIT_MSG

\* SkippedInDiff without the test of line 192.
SkippedInDiff_same_kept(entry) == entry.path = COMMIT_MSG

\* gerrit_service.py 190-192: fetch_patchset_diff fetches no diff for this entry.
SkippedInDiff(entry) == entry.path = COMMIT_MSG \/ entry.status = "SAME"

\* gerrit_service.py 126-133 and 198-204: the entry built for one file.
FileData(entry, diff_info) ==
    [path |-> entry.path, status |-> StatusOrDefault(entry.status), diff |-> diff_info]

\* The requests, as the endpoint's parts (the path is percent-encoded in the
\* URL, which is one-to-one).
DetailEndpoint(change_id, options) ==
    [kind |-> "detail", change_id |-> change_id, options |-> options,
     revision |-> Absent, file |-> Absent, base |-> Absent]
FilesEndpoint(change_id, revision, base) ==
    [kind |-> "files", change_id |-> change_id, options |-> Absent,
     revision |-> revision, file |-> Absent, base |-> base]
DiffEndpoint(change_id, revision, file, base) ==
    [kind |-> "diff", change_id |-> change_id, options |-> Absent,
     revision |-> revision, file |-> file, base |-> base]

\* ------------------------------------------------------------- URLs
\* A URL string is a sequence of pieces: "/" or a run of other characters.
RECURSIVE StripSlashes(_)
\* str.strip('/')
StripSlashes(s) ==
    IF s = << >> THEN s
    ELSE IF Head(s) = "/" THEN StripSlashes(Tail(s))
    ELSE IF s[Len(s)] = "/" THEN StripSlashes(SubSeq(s, 1, Len(s) - 1))
    ELSE s

RECURSIVE SplitSlashes(_)
\* str.split('/'): the segments between the slashes, empty ones included.
SplitSlashes(s) ==
    IF \A i \in DOMAIN s : s[i] # "/" THEN << s >>
    ELSE LET k == CHOOSE i \in DOMAIN s : s[i] = "/" /\ \A j \in 1..(i - 1) : s[j] # "/"
         IN << SubSeq(s, 1, k - 1) >> \o SplitSlashes(SubSeq(s, k + 1, Len(s)))

RECURSIVE JoinSlashes(_)
\* '/'.join(parts)
JoinSlashes(parts) ==
    IF parts = << >> THEN << >>
    ELSE IF Len(parts) = 1 THEN parts[1]
    ELSE parts[1] \o << "/" >> \o JoinSlashes(Tail(parts))

\* PlusIndex taking the last '+' segment, not the first.
PlusIndex_last(path_parts) ==
    LET hits == { i \in DOMAIN path_parts : path_parts[i] = << "+" >> }
    IN IF hits = {} THEN -1 ELSE (CHOOSE i \in hits : \A j \in hits : j <= i) - 1

\* gerrit_service.py 241: the 0-based index of the first '+' segment, or -1.
PlusIndex(path_parts) ==
    LET hits == { i \in DOMAIN path_parts : path_parts[i] = << "+" >> }
    IN IF hits = {} THEN -1 ELSE (CHOOSE i \in hits : \A j \in hits : i <= j) - 1

\* gerrit_service.py 240.
PathParts(change_url) == SplitSlashes(StripSlashes(change_url.path))

\* FullCloneUrl with the branch of clone_url_type == "ssh" never taken.
FullCloneUrl_never_ssh(protocol, host, user, project, clone_url_type) ==
    LET user_prefix == IF Truthy(user) THEN << user, "@" >> ELSE << >>
    IN << protocol, "://" >> \o user_prefix \o << host, "/a/" >> \o project \o << ".git" >>

\* gerrit_service.py 254-259.
FullCloneUrl(protocol, host, user, project, clone_url_type) ==
    LET user_prefix == IF Truthy(user) THEN << user, "@" >> ELSE << >>
    IN IF clone_url_type = "ssh"
       THEN << "ssh://" >> \o user_prefix \o << host, ":29418/" >> \o project \o << ".git" >>
       ELSE << protocol, "://" >> \o user_prefix \o << host, "/a/" >> \o project \o << ".git" >>

\* gerrit_service.py 264-266: raise ValueError(f"Failed to extract repository path: {str(e)}")
Wrapped(e) == [kind |-> "UrlDerivationError", cause |-> e.kind, available |-> e.available]

\* ------------------------------------------------------ tool arguments
ChangeIds == { << "777" >> }
\* patchset_number of fetch_gerrit_change: None, or a string.
PatchsetArgs == { PyNone, << >>, << "2" >>, << "1", "0" >>, << "3" >>, << "0", "2" >> }
\* base_patchset and target_patchset of fetch_patchset_diff.
DiffPatchsetArgs == { << "2" >>, << "1", "0" >>, << "3" >> }
FilePathArgs == { Absent, "a.c", "b.c" }
CloneUrlTypes == { "http", "ssh" }
UrlPaths ==
    { << "/", "c", "/", "proj", "/", "sub", "/", "+", "/", "777" >>,
      << "/", "c", "/", "proj", "/", "+", "/", "777" >>,
      << "/", "c", "/", "proj", "/", "+", "/", "777", "/" >>,
      << "/", "c", "/", "proj", "/", "+" >>,
      << "/", "c", "/", "+", "/", "777" >>,
      << "/", "c", "/", "+", "/", "proj", "/", "+", "/", "777" >>,
      << "/", "+", "/", "777" >>,
      << "/", "777" >>,
      << "/", "777", "/" >> }
ChangeUrls == [scheme : {"http", "https"}, hostname : {"host"}, path : UrlPaths]

\* os.environ as load_dotenv() leaves it.
Environs ==
    [GERRIT_HOST : {"", "gerrit"}, GERRIT_USER : {"", "alice"},
     GERRIT_HTTP_PASSWORD : {"", "secret"}]

NoArgs ==
    [change_id |-> << >>, patchset_number |-> PyNone, base_patchset |-> PyNone,
     target_patchset |-> PyNone, file_path |-> Absent,
     change_url |-> [scheme |-> "", hostname |-> "", path |-> << >>],
     clone_url_type |-> ""]

NoContext == [host |-> "", user |-> "", http_password |-> ""]

\* ------------------------------------------------------------ state
VARIABLES
    environ,          \* the process environment (GERRIT_HOST, ...)
    lifespan_context, \* the GerritContext gerrit_lifespan yields
    pc,               \* where the server is: see the actions
    tool,             \* the tool the caller invoked ("" when none)
    args,             \* its arguments
    change_info,      \* fetch_gerrit_change: the parsed change detail
    revisions,        \* fetch_patchset_diff: `revisions`, as read (key, _number)
    base_revision,    \* fetch_patchset_diff: base_revision
    target_revision,  \* both tools: target_revision
    files,            \* the file map being iterated (revision files, files_diff)
    idx,              \* the position in files of the next file to fetch
    collected,        \* processed_files (a list), changed_files (a dict)
    requests,         \* the GETs sent to the backend during this invocation
    result,           \* what the tool returned
    error,            \* the exception the tool raised
    last_call,        \* how this invocation's latest call of the primitive ended
    probe             \* one direct call of the request primitive

vars ==
    << environ, lifespan_context, pc, tool, args, change_info, revisions, base_revision,
       target_revision, files, idx, collected, requests, result, error, last_call, probe >>

FetchChange == "fetch_gerrit_change"
FetchDiff == "fetch_patchset_diff"
CloneUrl == "get_repository_path_from_change"

\* The part of the state a tool's code works on.
Frame ==
    [pc |-> pc, change_info |-> change_info, revisions |-> revisions,
     base_revision |-> base_revision, target_revision |-> target_revision,
     files |-> files, idx |-> idx, collected |-> collected,
     result |-> result, error |-> error]

EmptyFrame ==
    [pc |-> "idle", change_info |-> Null, revisions |-> << >>,
     base_revision |-> Absent, target_revision |-> Absent,
     files |-> << >>, idx |-> 0, collected |-> << >>,
     result |-> Null, error |-> Null]

Become(f) ==
    /\ pc' = f.pc
    /\ change_info' = f.change_info
    /\ revisions' = f.revisions
    /\ base_revision' = f.base_revision
    /\ target_revision' = f.target_revision
    /\ files' = f.files
    /\ idx' = f.idx
    /\ collected' = f.collected
    /\ result' = f.result
    /\ error' = f.error

\* No call of the primitive yet.
NoCall == [class |-> "none", error |-> Null, sent |-> FALSE]
\* The end of a call of the primitive, without the data it returned.
Ended(out) == [class |-> out.class, error |-> out.error, sent |-> out.sent]

\* The GETs after a call of the primitive on endpoint.
Sent(out, endpoint) == IF out.sent THEN Append(requests, endpoint) ELSE requests

\* An exception leaves tool t: fetch_gerrit_change and fetch_patchset_diff
\* catch nothing (the provider logs and re-raises, gerrit_provider.py 63-65),
\* get_repository_path_from_change wraps it (gerrit_service.py 264-266).
Raise(f, t, e) ==
    [f EXCEPT !.pc = "failed", !.error = IF t = CloneUrl THEN Wrapped(e) ELSE e]

\* The positions of the entries of a file map that get a diff GET.
ChangeTodo(fs) == { j \in DOMAIN fs : ~SkippedInChange(fs[j]) }
DiffTodo(fs) == { j \in DOMAIN fs : ~SkippedInDiff(fs[j]) }

\* NextIndex going to the last of the positions todo from i on, passing over
\* the ones before it.
NextIndex_last(fs, i, todo) ==
    LET rest == { j \in todo : j >= i }
    IN IF rest = {} THEN Len(fs) + 1 ELSE CHOOSE j \in rest : \A k \in rest : k <= j

\* The first of the positions todo from i on, or the position after the
\* last entry of fs: where the for loop stops for its next GET.
NextIndex(fs, i, todo) ==
    LET rest == { j \in todo : j >= i }
    IN IF rest = {} THEN Len(fs) + 1 ELSE CHOOSE j \in rest : \A k \in rest : j <= k

\* gerrit_service.py 136-142.
ChangeResult(f) ==
    [change_info |-> f.change_info,
     project |-> f.change_info.project,
     revision |-> f.target_revision,
     patchset |-> RevInfo(f.change_info.revisions, f.target_revision),
     files |-> f.collected]

\* gerrit_service.py 248-263: get_repository_path_from_change after its
\* call of fetch_gerrit_change returned.
CloneUrlResult(a, project) ==
    [full_clone_url |->
        FullCloneUrl(a.change_url.scheme, a.change_url.hostname, environ.GERRIT_USER,
                     project, a.clone_url_type)]

\* fetch_gerrit_change between two GETs: the loop of lines 120-134 up to the
\* next file that needs a diff, or the return of lines 136-142.
ContinueChange(f, t, a) ==
    IF f.idx <= Len(f.files) THEN [f EXCEPT !.pc = "change_files"]
    ELSE IF t = CloneUrl
    THEN [f EXCEPT !.pc = "done", !.result = CloneUrlResult(a, << ChangeResult(f).project >>)]
    ELSE [f EXCEPT !.pc = "done", !.result = ChangeResult(f)]

\* gerrit_service.py 92-119: the detail GET and what follows it.
ChangeDetailStep(f, t, a, out) ==
    IF out.class # "" THEN Raise(f, t, out.error)
    ELSE LET d == out.data
             c == CheckChange(d, a.patchset_number)
             g == [f EXCEPT !.change_info = d]
         IN IF ~c.ok THEN Raise(g, t, c.error)
            ELSE LET fs == RevInfo(d.revisions, c.rev).files
                 IN ContinueChange(
                        [g EXCEPT !.target_revision = c.rev, !.files = fs,
                                  !.idx = NextIndex(fs, 1, ChangeTodo(fs))],
                        t, a)

\* ChangeFileStep going on to the next file when the diff GET failed.
ChangeFileStep_swallow(f, t, a, out) ==
    ContinueChange(
        [f EXCEPT !.collected = Append(f.collected, FileData(f.files[f.idx], out.data)),
                  !.idx = NextIndex(f.files, f.idx + 1, ChangeTodo(f.files))],
        t, a)

\* gerrit_service.py 123-134: one diff GET and what follows it.
ChangeFileStep(f, t, a, out) ==
    IF out.class # "" THEN Raise(f, t, out.error)
    ELSE ContinueChange(
             [f EXCEPT !.collected = Append(f.collected, FileData(f.files[f.idx], out.data)),
                       !.idx = NextIndex(f.files, f.idx + 1, ChangeTodo(f.files))],
             t, a)

\* gerrit_service.py 206-212.
DiffResult(f, a) ==
    [base_revision |-> f.base_revision,
     target_revision |-> f.target_revision,
     base_patchset |-> a.base_patchset,
     target_patchset |-> a.target_patchset,
     files |-> f.collected]

\* fetch_patchset_diff between two GETs: the loop of lines 189-204 up to the
\* next file that needs a diff, or the return of lines 206-212.
ContinueDiff(f, a) ==
    IF f.idx <= Len(f.files) THEN [f EXCEPT !.pc = "diff_files"]
    ELSE [f EXCEPT !.pc = "done", !.result = DiffResult(f, a)]

\* What fetch_patchset_diff reads of the revisions map: keys and _number.
KeysAndNumbers(revs) == [i \in DOMAIN revs |-> [rev |-> revs[i].rev, _number |-> revs[i]._number]]

\* gerrit_service.py 167-186: the detail GET and what follows it.
DiffDetailStep(f, a, out) ==
    IF out.class # "" THEN Raise(f, FetchDiff, out.error)
    ELSE IF out.data = EmptyJson
    THEN \* raise ValueError(f"Change {change_id} not found")
         Raise(f, FetchDiff, Exc("ChangeNotFoundError"))
    ELSE LET revs == KeysAndNumbers(out.data.revisions)
             base == LastMatch(revs, a.base_patchset)
             target == LastMatch(revs, a.target_patchset)
             g == [f EXCEPT !.revisions = revs, !.base_revision = base,
                            !.target_revision = target]
         IN IF ~Truthy(base) \/ ~Truthy(target)
            THEN Raise(g, FetchDiff, PatchsetNotFound(revs))
            ELSE [g EXCEPT !.pc = "diff_list"]

\* gerrit_service.py 187-192: the file-list GET and what follows it.
DiffListStep(f, a, out) ==
    IF out.class # "" THEN Raise(f, FetchDiff, out.error)
    ELSE ContinueDiff(
             [f EXCEPT !.files = out.data, !.idx = NextIndex(out.data, 1, DiffTodo(out.data))], a)

\* gerrit_service.py 193-204: one diff GET and what follows it.
DiffFileStep(f, a, out) ==
    IF out.class # "" THEN Raise(f, FetchDiff, out.error)
    ELSE ContinueDiff(
             [f EXCEPT !.collected = Append(f.collected, FileData(f.files[f.idx], out.data)),
                       !.idx = NextIndex(f.files, f.idx + 1, DiffTodo(f.files))], a)

\* ---------------------------------------------------------- actions
Init ==
    /\ environ \in Environs
    /\ lifespan_context = NoContext
    /\ pc = "boot"
    /\ tool = ""
    /\ args = NoArgs
    /\ change_info = Null
    /\ revisions = << >>
    /\ base_revision = Absent
    /\ target_revision = Absent
    /\ files = << >>
    /\ idx = 0
    /\ collected = << >>
    /\ requests = << >>
    /\ result = Null
    /\ error = Null
    /\ last_call = NoCall
    /\ probe = Null

\* gerrit_service.py 40-63: the server starts; host and user are required,
\* the password is not.
gerrit_lifespan ==
    /\ pc = "boot"
    /\ IF ~Truthy(environ.GERRIT_HOST) \/ ~Truthy(environ.GERRIT_USER)
       THEN /\ pc' = "startup_failed"
            /\ UNCHANGED lifespan_context
       ELSE /\ pc' = "idle"
            /\ lifespan_context' =
                   [host |-> environ.GERRIT_HOST, user |-> environ.GERRIT_USER,
                    http_password |-> environ.GERRIT_HTTP_PASSWORD]
    /\ UNCHANGED << environ, tool, args, change_info, revisions, base_revision,
                    target_revision, files, idx, collected, requests, result, error,
                    last_call, probe >>

\* gerrit_service.py 73-119: the call of the tool, up to its second GET.
fetch_gerrit_change ==
    /\ pc = "idle"
    /\ \E change_id \in ChangeIds, patchset_number \in PatchsetArgs,
          out \in Answers(lifespan_context, ChangeDetails \cup {EmptyJson}) :
          LET a == [NoArgs EXCEPT !.change_id = change_id, !.patchset_number = patchset_number]
          IN /\ tool' = FetchChange
             /\ args' = a
             /\ requests' = Sent(out, DetailEndpoint(change_id, "all"))
             /\ last_call' = Ended(out)
             /\ Become(ChangeDetailStep(EmptyFrame, FetchChange, a, out))
    /\ UNCHANGED << environ, lifespan_context, probe >>

\* gerrit_service.py 120-142: the diff GET of the next file, up to the GET
\* after it or to the return.  Also the same code running for
\* get_repository_path_from_change (line 247).
fetch_gerrit_change_file ==
    /\ pc = "change_files"
    /\ \E out \in Answers(lifespan_context, DiffPayloads) :
          /\ requests' = Sent(out, DiffEndpoint(args.change_id, target_revision,
                                                files[idx].path, Absent))
          /\ last_call' = Ended(out)
          /\ Become(ChangeFileStep(Frame, tool, args, out))
    /\ UNCHANGED << environ, lifespan_context, tool, args, probe >>

\* gerrit_service.py 144-186: the call of the tool, up to its second GET.
fetch_patchset_diff ==
    /\ pc = "idle"
    /\ \E change_id \in ChangeIds, base_patchset \in DiffPatchsetArgs,
          target_patchset \in DiffPatchsetArgs, file_path \in FilePathArgs,
          out \in Answers(lifespan_context, ChangeDetails \cup {EmptyJson}) :
          LET a == [NoArgs EXCEPT !.change_id = change_id, !.base_patchset = base_patchset,
                                  !.target_patchset = target_patchset, !.file_path = file_path]
          IN /\ tool' = FetchDiff
             /\ args' = a
             /\ requests' = Sent(out, DetailEndpoint(change_id, "revisions"))
             /\ last_call' = Ended(out)
             /\ Become(DiffDetailStep(EmptyFrame, a, out))
    /\ UNCHANGED << environ, lifespan_context, probe >>

\* gerrit_service.py 184-192: the GET of the file list.
fetch_patchset_diff_list ==
    /\ pc = "diff_list"
    /\ \E out \in Answers(lifespan_context, FileMaps(MaxFiles, Statuses)) :
          /\ requests' = Sent(out, FilesEndpoint(args.change_id, target_revision,
                                                 base_revision))
          /\ last_call' = Ended(out)
          /\ Become(DiffListStep(Frame, args, out))
    /\ UNCHANGED << environ, lifespan_context, tool, args, probe >>

\* gerrit_service.py 193-212: the diff GET of the next changed file.
fetch_patchset_diff_file ==
    /\ pc = "diff_files"
    /\ \E out \in Answers(lifespan_context, DiffPayloads) :
          /\ requests' = Sent(out, DiffEndpoint(args.change_id, target_revision,
                                                files[idx].path, base_revision))
          /\ last_call' = Ended(out)
          /\ Become(DiffFileStep(Frame, args, out))
    /\ UNCHANGED << environ, lifespan_context, tool, args, probe >>

\* gerrit_service.py 214-266: the call of the tool.  With a '+' segment at
\* index > 1 it returns (or fails) at once; otherwise it calls
\* fetch_gerrit_change(ctx, change_id) and this step runs up to that call's
\* second GET.  args.change_id records the local change_id.
get_repository_path_from_change ==
    /\ pc = "idle"
    /\ \E change_url \in ChangeUrls, clone_url_type \in CloneUrlTypes,
          out \in Answers(lifespan_context, ChangeDetails \cup {EmptyJson}) :
          LET path_parts == PathParts(change_url)
              plus_index == PlusIndex(path_parts)
              a == [NoArgs EXCEPT !.change_url = change_url, !.clone_url_type = clone_url_type]
          IN /\ tool' = CloneUrl
             /\ IF plus_index > 1
                THEN IF plus_index + 2 > Len(path_parts)
                     THEN \* path_parts[plus_index + 1] raises IndexError
                          /\ args' = a
                          /\ requests' = requests
                          /\ last_call' = NoCall
                          /\ Become(Raise(EmptyFrame, CloneUrl, Exc("IndexError")))
                     ELSE LET b == [a EXCEPT !.change_id = path_parts[plus_index + 2]]
                              project == JoinSlashes(SubSeq(path_parts, 2, plus_index))
                          IN /\ args' = b
                             /\ requests' = requests
                             /\ last_call' = NoCall
                             /\ Become([EmptyFrame EXCEPT !.pc = "done",
                                           !.result = CloneUrlResult(b, project)])
                ELSE LET b == [a EXCEPT !.change_id = path_parts[Len(path_parts)]]
                     IN /\ args' = b
                        /\ requests' = Sent(out, DetailEndpoint(b.change_id, "all"))
                        /\ last_call' = Ended(out)
                        /\ Become(ChangeDetailStep(EmptyFrame, CloneUrl, b, out))
    /\ UNCHANGED << environ, lifespan_context, probe >>

\* The tool's result or exception has gone to the caller; the server waits
\* for the next call.
tool_returns ==
    /\ pc \in {"done", "failed"}
    /\ tool' = ""
    /\ args' = NoArgs
    /\ requests' = << >>
    /\ last_call' = NoCall
    /\ Become(EmptyFrame)
    /\ UNCHANGED << environ, lifespan_context, probe >>

Next ==
    \/ gerrit_lifespan
    \/ fetch_gerrit_change
    \/ fetch_gerrit_change_file
    \/ fetch_patchset_diff
    \/ fetch_patchset_diff_list
    \/ fetch_patchset_diff_file
    \/ get_repository_path_from_change
    \/ tool_returns

Spec == Init /\ [][Next]_vars

\* ------------------------------------- the request primitive on its own
\* One call of make_gerrit_rest_request(ctx, endpoint) for every context and
\* every answer of the backend.  GerritContext.http_password is
\* Optional[str] (gerrit_service.py 25).
ProbeContexts == [host : {"gerrit"}, user : {"alice"}, http_password : {Absent, "", "secret"}]

HttpInit ==
    /\ probe \in [gerrit_ctx : ProbeContexts, resp : Responses(DiffPayloads),
                  called : {FALSE}, out : {Null}]
    /\ environ = [GERRIT_HOST |-> "", GERRIT_USER |-> "", GERRIT_HTTP_PASSWORD |-> ""]
    /\ lifespan_context = NoContext
    /\ pc = "probe"
    /\ tool = ""
    /\ args = NoArgs
    /\ change_info = Null
    /\ revisions = << >>
    /\ base_revision = Absent
    /\ target_revision = Absent
    /\ files = << >>
    /\ idx = 0
    /\ collected = << >>
    /\ requests = << >>
    /\ result = Null
    /\ error = Null
    /\ last_call = NoCall

HttpCall ==
    /\ pc = "probe"
    /\ ~probe.called
    /\ probe' = [probe EXCEPT !.called = TRUE,
                              !.out = make_gerrit_rest_request(probe.gerrit_ctx, probe.resp)]
    /\ UNCHANGED << environ, lifespan_context, pc, tool, args, change_info, revisions,
                    base_revision, target_revision, files, idx, collected, requests,
                    result, error, last_call >>

HttpNext == HttpCall

SpecHttp == HttpInit /\ [][HttpNext]_vars

\* ------------------------- get_repository_path_from_change on its own
\* One call of get_repository_path_from_change(ctx, change_url,
\* clone_url_type) as a function, up to its call of fetch_gerrit_change.  The
\* user comes from the environment at the time of the call (line 251: the
\* MCP Context has no attribute `user`), which need not have passed
\* gerrit_lifespan.
UrlProbeTypes == {"http", "ssh", "git"}

UrlInit ==
    /\ probe \in [change_url : ChangeUrls, clone_url_type : UrlProbeTypes,
                  called : {FALSE}, out : {Null}]
    /\ environ \in [GERRIT_HOST : {""}, GERRIT_USER : {"", "alice"},
                    GERRIT_HTTP_PASSWORD : {""}]
    /\ lifespan_context = NoContext
    /\ pc = "url_probe"
    /\ tool = ""
    /\ args = NoArgs
    /\ change_info = Null
    /\ revisions = << >>
    /\ base_revision = Absent
    /\ target_revision = Absent
    /\ files = << >>
    /\ idx = 0
    /\ collected = << >>
    /\ requests = << >>
    /\ result = Null
    /\ error = Null
    /\ last_call = NoCall

\* gerrit_service.py 236-266 without the lookup: kind is "returned" with the
\* result, "raised" with the exception, or "lookup" when the function goes
\* on to call fetch_gerrit_change (line 247).
UrlCall ==
    /\ pc = "url_probe"
    /\ ~probe.called
    /\ LET path_parts == PathParts(probe.change_url)
           plus_index == PlusIndex(path_parts)
           a == [NoArgs EXCEPT !.change_url = probe.change_url,
                               !.clone_url_type = probe.clone_url_type]
       IN probe' =
            [probe EXCEPT
               !.called = TRUE,
               !.out =
                  IF plus_index > 1
                  THEN IF plus_index + 2 > Len(path_parts)
                       THEN \* path_parts[plus_index + 1] raises IndexError
                            [kind |-> "raised", error |-> Wrapped(Exc("IndexError")),
                             result |-> Null]
                       ELSE [kind |-> "returned", error |-> Null,
                             result |-> CloneUrlResult(
                                 a, JoinSlashes(SubSeq(path_parts, 2, plus_index)))]
                  ELSE [kind |-> "lookup", error |-> Null, result |-> Null]]
    /\ UNCHANGED << environ, lifespan_context, pc, tool, args, change_info, revisions,
                    base_revision, target_revision, files, idx, collected, requests,
                    result, error, last_call >>

UrlNext == UrlCall

SpecUrl == UrlInit /\ [][UrlNext]_vars

\* ================================================================ claims
\* The entries of revs whose str(_number) equals the string n.
Matching(revs, n) == { i \in DOMAIN revs : IntToStr(revs[i]._number) = n }

\* fetch_gerrit_change itself was called and its detail GET gave a change
\* detail that is not `{}`.
ChangeFetched == tool = FetchChange /\ change_info \notin {Null, EmptyJson}

\* C1: when the requested patchset number's string equals the string of some
\* revision's _number in a change detail that has a project,
\* fetch_gerrit_change works on the (first) revision carrying that number:
\* it raises none of its own errors, target_revision is that revision, and
\* on return `revision` is that revision and `patchset` its RevisionInfo.
C1_RequestedRevisionResolved ==
    (/\ ChangeFetched
     /\ Truthy(change_info.project)
     /\ TruthyStr(args.patchset_number)
     /\ Matching(change_info.revisions, args.patchset_number) # {})
    => LET revs == change_info.revisions
           hits == Matching(revs, args.patchset_number)
           first == CHOOSE i \in hits : \A j \in hits : i <= j
       IN /\ pc \in {"change_files", "done", "failed"}
          /\ pc = "failed" => error = last_call.error /\ last_call.class # ""
          /\ pc # "failed" => target_revision = revs[first].rev
          /\ pc = "done" => /\ result.revision = revs[first].rev
                            /\ result.patchset = revs[first]
                            /\ IntToStr(result.patchset._number) = args.patchset_number

\* C1 witness: patchset "10" was asked for, the change detail holds r1 with
\* number 2 and r2 with number 10, current_revision is r1, and the tool
\* returned r2.
C1_Witness ==
    /\ tool = FetchChange /\ pc = "done"
    /\ args.patchset_number = << "1", "0" >>
    /\ Len(result.change_info.revisions) = 2
    /\ result.change_info.revisions[1]._number = 2
    /\ result.change_info.current_revision = "r1"
    /\ result.revision = "r2"

\* C2: when fetch_gerrit_change is called without a patchset number, the
\* revision it works on is the change detail's current_revision, whatever the
\* revisions map holds: target_revision, and `revision` of the result, equal
\* current_revision, and no "patchset not found" error is raised.
C2_AbsentMeansCurrent ==
    (ChangeFetched /\ args.patchset_number = PyNone)
    => /\ pc \in {"change_files", "done"} => target_revision = change_info.current_revision
       /\ pc = "done" => /\ result.revision = result.change_info.current_revision
                         /\ result.patchset = RevInfo(change_info.revisions,
                                                      change_info.current_revision)
       /\ pc = "failed" => error.kind # "PatchsetNotFoundError"

\* C2 witness: no patchset number, two revisions, current_revision is the
\* first of them, and the tool returned it.
C2_Witness ==
    /\ tool = FetchChange /\ pc = "done"
    /\ args.patchset_number = PyNone
    /\ Len(result.change_info.revisions) = 2
    /\ result.change_info.current_revision = "r1"
    /\ result.revision = "r1"
    /\ result.files # << >>

\* The list av is in ascending order of its strings.
Ascending(av) == \A i, j \in DOMAIN av : i < j => ~StrLess(av[j], av[i])

\* The patchset number n is asked of a change detail none of whose revisions
\* carries it.
Unmatched(n) == ChangeFetched /\ n # PyNone /\ Matching(change_info.revisions, n) = {}

\* C3 as stated, for the change details that have a project and the
\* non-empty numbers (the cases nearest to its intent): when the requested
\* number matches no revision, fetch_gerrit_change fails with
\* PatchsetNotFoundError and its list holds every sequence number of the
\* change detail, none twice, in sorted order of the strings.
C3_AsStated ==
    (/\ Unmatched(args.patchset_number)
     /\ Truthy(change_info.project)
     /\ args.patchset_number # << >>)
    => /\ pc = "failed"
       /\ error.kind = "PatchsetNotFoundError"
       /\ \A i \in DOMAIN change_info.revisions :
             \E k \in DOMAIN error.available :
                error.available[k] = IntToStr(change_info.revisions[i]._number)
       /\ \A k, l \in DOMAIN error.available :
             error.available[k] = error.available[l] => k = l
       /\ Ascending(error.available)

\* C3 as amended: for every non-empty change detail with a project and every
\* non-empty requested number that matches no revision, fetch_gerrit_change
\* fails with PatchsetNotFoundError and its list holds the string of each
\* revision's sequence number once per revision (a number that several
\* revisions carry is listed once for each of them), in ascending
\* lexicographic order of the strings.
C3_AvailableListed ==
    (/\ Unmatched(args.patchset_number)
     /\ Truthy(change_info.project)
     /\ args.patchset_number # << >>)
    => /\ pc = "failed"
       /\ error.kind = "PatchsetNotFoundError"
       /\ error.cause = Absent
       /\ Len(error.available) = Len(change_info.revisions)
       /\ \A n \in Numbers :
             Cardinality({ k \in DOMAIN error.available : error.available[k] = IntToStr(n) })
             = Cardinality({ i \in DOMAIN change_info.revisions :
                               change_info.revisions[i]._number = n })
       /\ Ascending(error.available)

\* C3 witness: patchset "3" was asked for, the revisions carry 2 and 10 in
\* that order, and the error lists "10" before "2".
C3_Witness ==
    /\ tool = FetchChange /\ pc = "failed"
    /\ args.patchset_number = << "3" >>
    /\ error.kind = "PatchsetNotFoundError"
    /\ Len(change_info.revisions) = 2
    /\ change_info.revisions[1]._number = 2
    /\ error.available = << << "1", "0" >>, << "2" >> >>

\* C4: /COMMIT_MSG is never the file of a diff GET, never a path in the
\* files list fetch_gerrit_change builds or returns, and never a key of the
\* files dict fetch_patchset_diff builds or returns.
C4_CommitMsgExcluded ==
    /\ \A k \in DOMAIN requests : requests[k].file # COMMIT_MSG
    /\ \A k \in DOMAIN collected : collected[k].path # COMMIT_MSG
    /\ (pc = "done" /\ tool \in {FetchChange, FetchDiff})
       => \A k \in DOMAIN result.files : result.files[k].path # COMMIT_MSG

\* C4 witness: fetch_gerrit_change returned for a revision whose file map
\* starts with /COMMIT_MSG and goes on with a real file, which it returned.
C4_Witness ==
    /\ tool = FetchChange /\ pc = "done"
    /\ Len(files) = 2
    /\ files[1].path = COMMIT_MSG
    /\ Len(result.files) = 1
    /\ Len(requests) = 2

\* C5: when fetch_patchset_diff returns, every key of its files dict is a
\* key of the file map the backend answered the file-list GET with, its
\* status there is not SAME, and no returned entry has the status SAME.
C5_OnlyChangedFiles ==
    (tool = FetchDiff /\ pc = "done")
    => \A k \in DOMAIN result.files :
          /\ result.files[k].status # "SAME"
          /\ \E j \in DOMAIN files :
                files[j].path = result.files[k].path /\ files[j].status # "SAME"

\* C5 witness: the backend's file map holds a SAME file and an ADDED one,
\* and the tool returned one entry.
C5_Witness ==
    /\ tool = FetchDiff /\ pc = "done"
    /\ Len(files) = 2
    /\ files[1].status = "SAME" /\ files[1].path # COMMIT_MSG
    /\ files[2].status = "ADDED"
    /\ Len(result.files) = 1

\* A call of the primitive made for the running tool raised.
CallFailed == last_call.class \notin {"", "none"}

\* At every moment of fetch_gerrit_change and fetch_patchset_diff: if the
\* latest call of the primitive raised, the tool has failed with that very
\* exception and has returned nothing.
C6_FailedCallFailsTool ==
    (tool \in {FetchChange, FetchDiff} /\ CallFailed)
    => /\ pc = "failed"
       /\ error = last_call.error
       /\ error.cause = Absent
       /\ result = Null

\* C6: in fetch_gerrit_change and fetch_patchset_diff, when a GET fails (the
\* detail GET, the file-list GET or any per-file diff GET) the tool fails
\* with that exception unchanged, returns no result, and sends no further
\* GET: from a failed invocation the only step is the return to the caller.
C6_FailurePropagates ==
    /\ [] C6_FailedCallFailsTool
    /\ [][pc = "failed" => (pc' = "idle" /\ requests' = << >>)]_vars

\* C6 witness: fetch_patchset_diff failed at its second per-file diff GET,
\* with one diff already fetched, and returned nothing.
C6_Witness ==
    /\ tool = FetchDiff /\ pc = "failed"
    /\ Len(requests) = 4
    /\ Len(collected) = 1
    /\ last_call.error.kind = "TransportError"
    /\ error = last_call.error
    /\ result = Null

\* No password is configured.
NoPassword == ~Truthy(environ.GERRIT_HTTP_PASSWORD)

\* What C7 says of everything but the kind of the tool's exception: without
\* a password the context is still created (the server starts whenever host
\* and user are set), no GET is ever sent, every call of the primitive
\* raises ConfigurationError without sending, and the tool that made the
\* call fails.
C7_NoRequestWithoutPassword ==
    /\ requests = << >>
    /\ pc = "startup_failed" => ~Truthy(environ.GERRIT_HOST) \/ ~Truthy(environ.GERRIT_USER)
    /\ pc \notin {"boot", "startup_failed"} => lifespan_context.http_password = ""
    /\ pc \notin {"change_files", "diff_list", "diff_files"}
    /\ tool \in {FetchChange, FetchDiff} => last_call # NoCall
    /\ last_call # NoCall
       => /\ last_call.error.kind = "ConfigurationError"
          /\ ~last_call.sent
          /\ pc = "failed"

\* C7 as stated: without a password every call of the primitive, and so
\* every fetch_gerrit_change, fetch_patchset_diff and looking-up
\* get_repository_path_from_change, fails with ConfigurationError, no GET is
\* sent, and the context is created all the same.
C7_AsStated ==
    NoPassword
    => /\ C7_NoRequestWithoutPassword
       /\ last_call # NoCall => error.kind = "ConfigurationError"

\* C7 as amended: as stated, except that get_repository_path_from_change
\* fails with UrlDerivationError wrapping the ConfigurationError (its
\* message), while fetch_gerrit_change and fetch_patchset_diff fail with the
\* ConfigurationError itself.
C7_PasswordRequired ==
    NoPassword
    => /\ C7_NoRequestWithoutPassword
       /\ (last_call # NoCall /\ tool \in {FetchChange, FetchDiff})
          => error = Exc("ConfigurationError")
       /\ (last_call # NoCall /\ tool = CloneUrl)
          => error.kind = "UrlDerivationError" /\ error.cause = "ConfigurationError"

\* C7 witness: the server runs without a password and
\* get_repository_path_from_change, needing a lookup, has failed.
C7_Witness ==
    /\ NoPassword
    /\ lifespan_context.host = "gerrit"
    /\ tool = CloneUrl /\ pc = "failed"
    /\ last_call.error.kind = "ConfigurationError"
    /\ error.cause = "ConfigurationError"
    /\ requests = << >>

\* The probe's call was sent and got a response with the given status.
ProbeAnswered(status_code) ==
    /\ pc = "probe"
    /\ probe.called
    /\ probe.out.sent
    /\ probe.resp.received
    /\ probe.resp.status_code = status_code

\* C8: a response with status 401, whatever its body, makes the primitive
\* raise the authentication failure: a plain Exception that the
\* RequestException handler does not catch, so it is neither turned into the
\* transport failure nor into the JSON failure.
C8_UnauthorizedIsAuthError ==
    ProbeAnswered(401)
    => /\ probe.out.class = "Exception"
       /\ probe.out.error.kind = "AuthenticationError"
       /\ probe.out.data = Null

\* C8 witness: a 401 response whose body is the prefix and a valid document.
C8_Witness ==
    /\ ProbeAnswered(401)
    /\ probe.resp.text = Magic \o << Json("diff") >>
    /\ probe.out.error.kind = "AuthenticationError"

\* C9 as stated: every response whose status is outside 200-299 and is not
\* 401 (1xx and 3xx included) makes the primitive raise TransportError
\* without parsing or returning the body.
C9_AsStated ==
    \A status_code \in StatusCodes \ ((200..299) \cup {401}) :
       ProbeAnswered(status_code)
       => /\ probe.out.class # ""
          /\ probe.out.error.kind = "TransportError"

\* C10 as stated: given file_path, fetch_patchset_diff sends a diff GET for
\* no other file and returns a files dict with no other key (an empty one,
\* without failing, when file_path is not a changed file).
C10_AsStated ==
    (tool = FetchDiff /\ Truthy(args.file_path))
    => /\ \A k \in DOMAIN requests :
             requests[k].kind = "diff" => requests[k].file = args.file_path
       /\ pc = "done" => \A k \in DOMAIN result.files : result.files[k].path = args.file_path

\* The key of the first entry of revs, in iteration order, whose str(_number)
\* equals the string n: what the loop of fetch_gerrit_change (with its break)
\* resolves n to.
FirstOf(revs, n) ==
    LET hits == Matching(revs, n)
    IN revs[CHOOSE i \in hits : \A j \in hits : i <= j].rev

\* C11 as stated: once fetch_patchset_diff has read the revisions of a change
\* detail, base_revision and target_revision are the first revisions, in
\* iteration order, carrying the base and the target number (also when two
\* revisions carry one number, and when both numbers are equal); and when
\* either number matches no revision the tool fails with the "patchset not
\* found" error listing the available numbers, having sent the detail GET
\* alone.
C11_AsStated ==
    (tool = FetchDiff /\ revisions # << >>)
    => IF \/ Matching(revisions, args.base_patchset) = {}
          \/ Matching(revisions, args.target_patchset) = {}
       THEN /\ pc = "failed"
            /\ error = PatchsetNotFound(revisions)
            /\ Len(requests) = 1
            /\ requests[1].kind = "detail"
       ELSE /\ base_revision = FirstOf(revisions, args.base_patchset)
            /\ target_revision = FirstOf(revisions, args.target_patchset)

\* get_repository_path_from_change called fetch_gerrit_change: a call of the
\* request primitive was made (sent or refused for want of a password).
LookedUp == last_call # NoCall

\* Some '+' segment of parts is at a (0-based) index greater than 1.
PlusBeyondOne(parts) ==
    \E i \in DOMAIN parts : parts[i] = << "+" >> /\ i - 1 > 1

\* The first '+' segment of parts is at a (0-based) index greater than 1.
FirstPlusBeyondOne(parts) ==
    \E i \in DOMAIN parts :
       /\ parts[i] = << "+" >> /\ i - 1 > 1
       /\ \A j \in 1..(i - 1) : parts[j] # << "+" >>

\* The segments of parts from index 1 up to the first '+' segment, joined.
ProjectOfUrl(parts) ==
    LET i == CHOOSE k \in DOMAIN parts :
                parts[k] = << "+" >> /\ \A j \in 1..(k - 1) : parts[j] # << "+" >>
    IN JoinSlashes(SubSeq(parts, 2, i - 1))

\* C12 as stated: get_repository_path_from_change looks the change up exactly
\* when the path of the change URL has no '+' segment at an index greater
\* than 1, and sends no request when it has one (with a password set, so
\* that a lookup shows as a request sent).
C12_AsStated ==
    (tool = CloneUrl /\ Truthy(lifespan_context.http_password))
    => (requests # << >> <=> ~PlusBeyondOne(PathParts(args.change_url)))

\* C12 as amended: get_repository_path_from_change looks the change up
\* exactly when the FIRST '+' segment of the path (segments counted after
\* stripping the slashes at both ends) is not at an index greater than 1, or
\* there is none.  Then it runs the whole of fetch_gerrit_change for the last
\* segment as change id (the detail GET first, then one diff GET per file)
\* and the clone URL carries the project of the change detail.  Otherwise no
\* call of the request primitive is made, no request is sent, and the clone
\* URL carries the segments between index 0 and the '+'.
C12_LookupIffFirstPlusNotBeyondOne ==
    tool = CloneUrl
    => LET parts == PathParts(args.change_url)
           u == args.change_url
       IN IF FirstPlusBeyondOne(parts)
          THEN /\ ~LookedUp
               /\ requests = << >>
               /\ pc \in {"done", "failed"}
               /\ pc = "done" =>
                     result.full_clone_url =
                        FullCloneUrl(u.scheme, u.hostname, environ.GERRIT_USER,
                                     ProjectOfUrl(parts), args.clone_url_type)
          ELSE /\ LookedUp
               /\ Truthy(lifespan_context.http_password) => requests # << >>
               /\ args.change_id = parts[Len(parts)]
               /\ requests # << >> =>
                     requests[1] = DetailEndpoint(parts[Len(parts)], "all")
               /\ \A k \in DOMAIN requests : k > 1 => requests[k].kind = "diff"
               /\ pc = "done" =>
                     /\ Len(requests) = 1 + Cardinality(ChangeTodo(files))
                     /\ result.full_clone_url =
                           FullCloneUrl(u.scheme, u.hostname, environ.GERRIT_USER,
                                        << change_info.project >>, args.clone_url_type)

\* C12 witness: the path /c/+/proj/+/777 has a '+' at index 3 and its first
\* '+' at index 1; the change 777 was looked up, with the detail GET and one
\* diff GET, and the clone URL was returned.
C12_Witness ==
    /\ tool = CloneUrl /\ pc = "done"
    /\ PlusBeyondOne(PathParts(args.change_url))
    /\ ~FirstPlusBeyondOne(PathParts(args.change_url))
    /\ args.change_id = << "777" >>
    /\ Len(requests) = 2

\* The probe of get_repository_path_from_change has run.
UrlProbed == pc = "url_probe" /\ probe.called

\* The clone URL the claim gives for project P: ssh://U@H:29418/P.git for
\* "ssh", <scheme>://U@H/a/P.git otherwise, without U@ when U is empty.
ClaimedCloneUrl(P) ==
    LET u == probe.change_url
        U == environ.GERRIT_USER
        at == IF U = "" THEN << >> ELSE << U, "@" >>
    IN IF probe.clone_url_type = "ssh"
       THEN << "ssh://" >> \o at \o << u.hostname, ":29418/" >> \o P \o << ".git" >>
       ELSE << u.scheme, "://" >> \o at \o << u.hostname, "/a/" >> \o P \o << ".git" >>

\* C13 as stated: for every change URL whose path has a '+' segment at an
\* index i > 1, get_repository_path_from_change returns the claimed clone URL
\* for the project made of the segments 1..i-1 (for one such i).
C13_AsStated ==
    LET parts == PathParts(probe.change_url)
    IN (UrlProbed /\ PlusBeyondOne(parts))
       => \E i \in DOMAIN parts :
             /\ parts[i] = << "+" >> /\ i - 1 > 1
             /\ probe.out.kind = "returned"
             /\ probe.out.result.full_clone_url =
                   ClaimedCloneUrl(JoinSlashes(SubSeq(parts, 2, i - 1)))

\* C13 as amended: for every change URL whose path has its FIRST '+' segment
\* at an index i > 1 and a segment after it, get_repository_path_from_change
\* returns the claimed clone URL for the project made of the segments
\* 1..i-1: ssh://U@H:29418/P.git for "ssh", <scheme>://U@H/a/P.git for every
\* other clone_url_type, U@ left out exactly when the user is empty.
C13_CloneUrlFormat ==
    LET parts == PathParts(probe.change_url)
    IN (/\ UrlProbed
        /\ FirstPlusBeyondOne(parts)
        /\ \E i \in 1..(Len(parts) - 1) :
              parts[i] = << "+" >> /\ \A j \in 1..(i - 1) : parts[j] # << "+" >>)
       => /\ probe.out.kind = "returned"
          /\ probe.out.result.full_clone_url = ClaimedCloneUrl(ProjectOfUrl(parts))

\* C13 witness: the example of the claim, http://host/c/proj/sub/+/777 with
\* "ssh" and user alice, gives ssh://alice@host:29418/proj/sub.git.
C13_Witness ==
    /\ UrlProbed
    /\ probe.change_url =
          [scheme |-> "http", hostname |-> "host",
           path |-> << "/", "c", "/", "proj", "/", "sub", "/", "+", "/", "777" >>]
    /\ probe.clone_url_type = "ssh"
    /\ environ.GERRIT_USER = "alice"
    /\ probe.out.kind = "returned"
    /\ probe.out.result.full_clone_url =
          << "ssh://", "alice", "@", "host", ":29418/", "proj", "/", "sub", ".git" >>

\* C14 as stated: when requests.get() fails without any response
\* (connection refused, DNS or TLS failure), the primitive raises the
\* transport failure, "Failed to make Gerrit REST API request", the error
\* it raises for a status of 400-599.
C14_AsStated ==
    (/\ pc = "probe"
     /\ probe.called
     /\ probe.out.sent
     /\ ~probe.resp.received)
    => /\ probe.out.class = "Exception"
       /\ probe.out.error.kind = "TransportError"

\* An entry of a file map other than the commit message.
NotCommitMsg(entry) == entry.path # COMMIT_MSG

\* The GETs a whole run of fetch_gerrit_change on revision rev of the change
\* detail d is to send: the detail GET, then one diff GET on rev for each
\* file of rev's file map other than /COMMIT_MSG, in the order of the map.
ExpectedRequests(d, rev) ==
    LET wanted == SelectSeq(RevInfo(d.revisions, rev).files, NotCommitMsg)
    IN << [kind |-> "detail", change_id |-> args.change_id, options |-> "all",
           revision |-> Absent, file |-> Absent, base |-> Absent] >>
       \o [k \in DOMAIN wanted |->
             [kind |-> "diff", change_id |-> args.change_id, options |-> Absent,
              revision |-> rev, file |-> wanted[k].path, base |-> Absent]]

\* C15: while fetch_gerrit_change works on its resolved revision the GETs
\* sent so far are a prefix of the expected ones, and one file entry has
\* been collected per diff GET answered; when it returns, the GETs sent are
\* exactly the expected ones (the detail GET, then one diff GET per file
\* other than /COMMIT_MSG, on the resolved revision, in file-map order, none
\* twice), and `files` holds one entry per diff GET, in that order, each path
\* a key of the revision's file map.
C15_OneRequestPerFileInOrder ==
    (tool = FetchChange /\ pc \in {"change_files", "done"})
    => LET expected == ExpectedRequests(change_info, target_revision)
           fs == RevInfo(change_info.revisions, target_revision).files
           got == IF pc = "done" THEN result.files ELSE collected
       IN /\ Len(requests) <= Len(expected)
          /\ requests = SubSeq(expected, 1, Len(requests))
          /\ \A k, l \in DOMAIN requests : requests[k] = requests[l] => k = l
          /\ Len(got) = Len(requests) - 1
          /\ \A k \in DOMAIN got :
                /\ got[k].path = requests[k + 1].file
                /\ \E j \in DOMAIN fs : fs[j].path = got[k].path
          /\ pc = "done" => /\ requests = expected
                            /\ result.revision = target_revision

\* C15 witness: the resolved revision's file map is b.c then a.c; the tool
\* returned after the detail GET and the diff GETs of b.c and a.c, in that
\* order, with the two files in that order.
C15_Witness ==
    /\ tool = FetchChange /\ pc = "done"
    /\ Len(requests) = 3
    /\ requests[1].kind = "detail"
    /\ requests[2].file = "b.c" /\ requests[3].file = "a.c"
    /\ Len(result.files) = 2
    /\ result.files[1].path = "b.c" /\ result.files[2].path = "a.c"

====
